---------------------------- MODULE Spec2Model ----------------------------
(***************************************************************************)
(* A model of the Nightscout /pebble page builder (the script with smart   *)
(* unit handling, src/unnamed/part_001 lines 1-235) and of the formatters  *)
(* of its predecessor (src/scripts/build.js lines 266-428), and of the     *)
(* earlier script that reads the status twice (build.js lines 102-264).    *)
(*                                                                         *)
(* JavaScript values are records [t, n, s]: t is the typeof tag, n the     *)
(* number in tenths (fixed point, 65 is 6.5) and s the string as a         *)
(* sequence of one-character strings.  Numeric inputs carry at most one    *)
(* fractional digit, so every quotient below is rounded exactly as the     *)
(* double arithmetic of the script rounds it (no input is near a tie).     *)
(***************************************************************************)
EXTENDS Integers, Sequences, FiniteSets, TLC

VARIABLES env, pc, pebble, statusFetch, data, status, err, now, out, file,
          exitCode, fetched

vars == <<env, pc, pebble, statusFetch, data, status, err, now, out, file,
          exitCode, fetched>>

----------------------------------------------------------------------------
(* JavaScript values *)

JUndef == [t |-> "undefined", n |-> 0, s |-> <<>>]
JNull == [t |-> "null", n |-> 0, s |-> <<>>]
JNum(v) == [t |-> "number", n |-> v, s |-> <<>>]
JStr(str) == [t |-> "string", n |-> 0, s |-> str]
\* a function or object value reached through the prototype chain
JObj(name) == [t |-> "object", n |-> 0, s |-> name]

\* x == null
IsNullish(x) == x.t \in {"undefined", "null"}

\* a ?? b
Coalesce(a, b) == IF IsNullish(a) THEN b ELSE a

\* the truthiness test of if (x), x || y, x ? a : b
Truthy(x) ==
    CASE x.t = "string" -> x.s # <<>>
      [] x.t = "number" -> x.n # 0
      [] x.t = "object" -> TRUE
      [] OTHER -> FALSE

\* the result of parseFloat and of arithmetic: NaN or a finite number of tenths
NaN == [fin |-> FALSE, v |-> 0]
Fin(v) == [fin |-> TRUE, v |-> v]

----------------------------------------------------------------------------
(* Strings *)

Digits == <<"0", "1", "2", "3", "4", "5", "6", "7", "8", "9">>
DigitSet == {Digits[i] : i \in 1..10}
DigitVal(c) == (CHOOSE i \in 1..10 : Digits[i] = c) - 1

UpperCase == <<"A","B","C","D","E","F","G","H","I","J","K","L","M",
               "N","O","P","Q","R","S","T","U","V","W","X","Y","Z">>
LowerCase == <<"a","b","c","d","e","f","g","h","i","j","k","l","m",
               "n","o","p","q","r","s","t","u","v","w","x","y","z">>

\* the lower-case letter of each upper-case letter
LowerOf ==
    [c \in {UpperCase[k] : k \in 1..26} |->
        LowerCase[CHOOSE k \in 1..26 : UpperCase[k] = c]]

\* String.prototype.toLowerCase
ToLowerCase(str) ==
    [i \in 1..Len(str) |->
        IF str[i] \in DOMAIN LowerOf THEN LowerOf[str[i]] ELSE str[i]]

\* String.prototype.includes
Includes(str, sub) ==
    \E i \in 1..(Len(str) - Len(sub) + 1) : SubSeq(str, i, i + Len(sub) - 1) = sub

WhiteSpace == {" ", "\t", "\n"}

RECURSIVE TrimStart(_)
TrimStart(str) ==
    IF str # <<>> /\ Head(str) \in WhiteSpace THEN TrimStart(Tail(str)) ELSE str

RECURSIVE TrimEnd(_)
TrimEnd(str) ==
    IF str # <<>> /\ str[Len(str)] \in WhiteSpace
    THEN TrimEnd(SubSeq(str, 1, Len(str) - 1))
    ELSE str

\* String.prototype.trim
Trim(str) == TrimEnd(TrimStart(str))

\* s.replace(",", "."): the first comma only
ReplaceComma(str) ==
    IF \E i \in 1..Len(str) : str[i] = ","
    THEN LET k == CHOOSE i \in 1..Len(str) :
                      str[i] = "," /\ \A j \in 1..(i - 1) : str[j] # ","
         IN [str EXCEPT ![k] = "."]
    ELSE str

RECURSIVE NatToStr(_)
NatToStr(k) ==
    IF k < 10 THEN <<Digits[k + 1]>>
    ELSE NatToStr(k \div 10) \o <<Digits[(k % 10) + 1]>>

Abs(v) == IF v < 0 THEN -v ELSE v

\* String(n) of a number of tenths: "120", "6.5", "-0.3"
NumToStr(v) ==
    (IF v < 0 THEN <<"-">> ELSE <<>>)
    \o NatToStr(Abs(v) \div 10)
    \o (IF Abs(v) % 10 = 0 THEN <<>> ELSE <<".", Digits[(Abs(v) % 10) + 1]>>)

\* String(x)
JsString(x) ==
    CASE x.t = "undefined" -> <<"u","n","d","e","f","i","n","e","d">>
      [] x.t = "null" -> <<"n","u","l","l">>
      [] x.t = "number" -> NumToStr(x.n)
      [] OTHER -> x.s

\* the longest prefix of str made of digits
RECURSIVE DigitRun(_)
DigitRun(str) ==
    IF str # <<>> /\ Head(str) \in DigitSet
    THEN <<Head(str)>> \o DigitRun(Tail(str))
    ELSE <<>>

RECURSIVE StrToNat(_)
StrToNat(ds) ==
    IF ds = <<>> THEN 0
    ELSE StrToNat(SubSeq(ds, 1, Len(ds) - 1)) * 10 + DigitVal(ds[Len(ds)])

\* parseFloat: leading white space, an optional sign, digits, an optional
\* fraction; anything after the longest numeric prefix is ignored, and no
\* numeric prefix gives NaN.  (The inputs hold no exponent and no "Infinity".)
ParseFloat(str) ==
    LET s0 == TrimStart(str)
        neg == s0 # <<>> /\ Head(s0) = "-"
        s1 == IF s0 # <<>> /\ Head(s0) \in {"+", "-"} THEN Tail(s0) ELSE s0
        ip == DigitRun(s1)
        r1 == SubSeq(s1, Len(ip) + 1, Len(s1))
        fp == IF r1 # <<>> /\ Head(r1) = "." THEN DigitRun(Tail(r1)) ELSE <<>>
        mag == StrToNat(ip) * 10 + (IF fp = <<>> THEN 0 ELSE DigitVal(fp[1]))
    IN IF ip = <<>> /\ fp = <<>> THEN NaN
       ELSE Fin(IF neg THEN -mag ELSE mag)

\* (x).toFixed(1) of a number of tenths
ToFixed1(v) ==
    (IF v < 0 THEN <<"-">> ELSE <<>>)
    \o NatToStr(Abs(v) \div 10) \o <<".", Digits[(Abs(v) % 10) + 1]>>

\* the nearest integer to a / b, b > 0, halves toward +Infinity (Math.round)
RoundDiv(a, b) == (2 * a + b) \div (2 * b)

----------------------------------------------------------------------------
(* Literals of the script *)

S(str) == JStr(str)

MMOL_L == <<"m","m","o","l","/","L">>
MG_DL == <<"m","g","/","d","L">>
Units == {MMOL_L, MG_DL}
QMark == <<"?">>
UTC == <<"U","T","C">>

\* const MGDL_PER_MMOLL = 18.0182, as a count of ten-thousandths
MGDL_PER_MMOLL == 180182

----------------------------------------------------------------------------
(* Environment: process.env and the runner *)

\* process.env.X?.trim()
EnvTrim(x) == IF IsNullish(x) THEN JUndef ELSE S(Trim(x.s))

\* process.env.X?.trim()?.toLowerCase()
EnvTrimLower(x) == IF IsNullish(x) THEN JUndef ELSE S(ToLowerCase(Trim(x.s)))

\* const FORCE_MMOL = process.env.FORCE_MMOL?.trim()?.toLowerCase() === "true"
FORCE_MMOL(e) == EnvTrimLower(e.FORCE_MMOL) = S(<<"t","r","u","e">>)

\* const NS_UNITS = process.env.NIGHTSCOUT_UNITS?.trim()?.toLowerCase()
NS_UNITS(e) == EnvTrimLower(e.NIGHTSCOUT_UNITS)

\* moment-timezone's name normalisation: lower case, "/" read as "_"
NormalizeName(str) ==
    LET l == ToLowerCase(str)
    IN [i \in 1..Len(l) |-> IF l[i] = "/" THEN "_" ELSE l[i]]

\* the zones the moment database of the model knows
MomentZones == {UTC, <<"A","s","i","a","/","T","o","k","y","o">>}

\* moment.tz.zone(name) is not null
HasZone(name) == \E z \in MomentZones : NormalizeName(z) = NormalizeName(name)

----------------------------------------------------------------------------
(* Payloads.  A status payload is null (getStatus gave up, or the JSON was *)
(* null) or an object with an optional settings object; absent keys read   *)
(* as undefined.                                                           *)

NullStatus ==
    [isNull |-> TRUE, hasSettings |-> FALSE, units |-> JUndef,
     units_bg |-> JUndef, timezone |-> JUndef, topUnits |-> JUndef]

\* status?.settings?.<key>
Settings(st, key) ==
    IF st.isNull \/ ~st.hasSettings THEN JUndef ELSE st[key]

\* status?.units
TopUnits(st) == IF st.isNull THEN JUndef ELSE st.topUnits

EmptyBg ==
    [sgv |-> JUndef, bgdelta |-> JUndef, trend |-> JUndef,
     direction |-> JUndef, datetime |-> JUndef, readingDate |-> JUndef]

\* const bg0 = (data?.bgs && data.bgs[0]) || {}
Bg0(d) ==
    IF d.isNull \/ ~d.hasBgs \/ d.bgs = <<>> THEN EmptyBg ELSE d.bgs[1]

----------------------------------------------------------------------------
(* Helpers of the script *)

toNumber(x) ==
    IF IsNullish(x) THEN NaN
    ELSE ParseFloat(ReplaceComma(JsString(x)))

looksLikeMmol(n) == n.fin /\ n.v > 0 /\ n.v <= 400

\* the status value deriveUnits reads
StatusUnitsRaw(st) ==
    Coalesce(Settings(st, "units"),
        Coalesce(Settings(st, "units_bg"), Coalesce(TopUnits(st), JNull)))

\* deriveUnits with the general override consulted before the force flag
deriveUnitsOverrideFirst(e, st, sgvRaw) ==
    IF NS_UNITS(e) = S(<<"m","m","o","l">>) THEN MMOL_L
    ELSE IF NS_UNITS(e) = S(<<"m","g","d","l">>) THEN MG_DL
    ELSE IF FORCE_MMOL(e) THEN MMOL_L
    ELSE IF Truthy(StatusUnitsRaw(st))
    THEN IF Includes(ToLowerCase(JsString(StatusUnitsRaw(st))), <<"m","m","o","l">>)
         THEN MMOL_L ELSE MG_DL
    ELSE IF looksLikeMmol(toNumber(sgvRaw)) THEN MMOL_L ELSE MG_DL

deriveUnits(e, st, sgvRaw) ==
    IF FORCE_MMOL(e) THEN MMOL_L
    ELSE IF NS_UNITS(e) = S(<<"m","m","o","l">>) THEN MMOL_L
    ELSE IF NS_UNITS(e) = S(<<"m","g","d","l">>) THEN MG_DL
    ELSE LET raw == StatusUnitsRaw(st)
         IN IF Truthy(raw)
            THEN IF Includes(ToLowerCase(JsString(raw)), <<"m","m","o","l">>)
                 THEN MMOL_L ELSE MG_DL
            ELSE IF looksLikeMmol(toNumber(sgvRaw)) THEN MMOL_L ELSE MG_DL

\* formatBGSmart that always converts to the unit asked for, as formatBG of
\* the earlier script did
formatBGTrusting(valueRaw, outUnits) ==
    LET n == toNumber(valueRaw)
    IN IF ~n.fin THEN JsString(Coalesce(valueRaw, S(QMark)))
       ELSE IF outUnits = MMOL_L
       THEN ToFixed1(RoundDiv(n.v * 10000, MGDL_PER_MMOLL))
       ELSE NumToStr(10 * RoundDiv(n.v, 10))

\* formatBGSmart with the thresholds off by one tenth (>= 40 and < 40)
formatBGSmartOffByOne(valueRaw, outUnits) ==
    LET n == toNumber(valueRaw)
    IN IF ~n.fin THEN JsString(Coalesce(valueRaw, S(QMark)))
       ELSE IF outUnits = MMOL_L
       THEN ToFixed1(IF n.v >= 400
                     THEN RoundDiv(n.v * 10000, MGDL_PER_MMOLL)
                     ELSE n.v)
       ELSE NumToStr(10 * (IF n.v < 400
                           THEN RoundDiv(n.v * MGDL_PER_MMOLL, 100000)
                           ELSE RoundDiv(n.v, 10)))

\* the value the display shows for a raw reading
formatBGSmart(valueRaw, outUnits) ==
    LET n == toNumber(valueRaw)
    IN IF ~n.fin THEN JsString(Coalesce(valueRaw, S(QMark)))
       ELSE IF outUnits = MMOL_L
       THEN ToFixed1(IF n.v > 400
                     THEN RoundDiv(n.v * 10000, MGDL_PER_MMOLL)
                     ELSE n.v)
       ELSE NumToStr(10 * (IF n.v <= 400
                           THEN RoundDiv(n.v * MGDL_PER_MMOLL, 100000)
                           ELSE RoundDiv(n.v, 10)))

\* the explicit sign formatDeltaSmart reads off the trimmed text
SignIn(deltaRaw) ==
    LET s == Trim(JsString(deltaRaw))
    IN IF s # <<>> /\ s[1] \in {"+", "-"} THEN <<s[1]>> ELSE <<>>

\* formatDeltaSmart that prints only a sign the input carries
formatDeltaSmartNoDerivedSign(deltaRaw, outUnits) ==
    IF IsNullish(deltaRaw) \/ deltaRaw = S(<<>>) THEN <<>>
    ELSE LET n == toNumber(deltaRaw)
         IN IF ~n.fin THEN JsString(deltaRaw)
            ELSE IF outUnits = MMOL_L
            THEN SignIn(deltaRaw)
                 \o ToFixed1(IF Abs(n.v) > 35
                             THEN RoundDiv(Abs(n.v) * 10000, MGDL_PER_MMOLL)
                             ELSE Abs(n.v))
            ELSE SignIn(deltaRaw)
                 \o NumToStr(10 * (IF Abs(n.v) <= 35
                                   THEN RoundDiv(Abs(n.v) * MGDL_PER_MMOLL, 100000)
                                   ELSE RoundDiv(Abs(n.v), 10)))

formatDeltaSmart(deltaRaw, outUnits) ==
    IF IsNullish(deltaRaw) \/ deltaRaw = S(<<>>) THEN <<>>
    ELSE LET signIn == SignIn(deltaRaw)
             n == toNumber(deltaRaw)
             sign == IF signIn # <<>> THEN signIn
                     ELSE IF n.v >= 0 THEN <<"+">> ELSE <<"-">>
         IN IF ~n.fin THEN JsString(deltaRaw)
            ELSE IF outUnits = MMOL_L
            THEN sign \o ToFixed1(IF Abs(n.v) > 35
                                  THEN RoundDiv(Abs(n.v) * 10000, MGDL_PER_MMOLL)
                                  ELSE Abs(n.v))
            ELSE sign \o NumToStr(10 * (IF Abs(n.v) <= 35
                                        THEN RoundDiv(Abs(n.v) * MGDL_PER_MMOLL, 100000)
                                        ELSE RoundDiv(Abs(n.v), 10)))

\* resolveTimezone that passes over a status timezone moment does not know,
\* as deriveTimezone of the earlier script did
resolveTimezoneValidating(e, st) ==
    LET override == EnvTrim(e.NIGHTSCOUT_TZ)
        tzRaw == Settings(st, "timezone")
        localTZ == IF Truthy(e.localTZ) THEN e.localTZ.s ELSE UTC
    IN IF Truthy(override) THEN [thrown |-> FALSE, tz |-> override.s]
       ELSE IF ~IsNullish(tzRaw) /\ tzRaw.t # "string"
       THEN [thrown |-> TRUE, tz |-> <<>>]
       ELSE IF ~IsNullish(tzRaw) /\ Trim(tzRaw.s) # <<>> /\ HasZone(Trim(tzRaw.s))
       THEN [thrown |-> FALSE, tz |-> Trim(tzRaw.s)]
       ELSE IF ~HasZone(localTZ) THEN [thrown |-> FALSE, tz |-> UTC]
       ELSE [thrown |-> FALSE, tz |-> localTZ]

\* resolveTimezone: [thrown, tz]; thrown when .trim is called on a value that
\* has no such method (TypeError)
resolveTimezone(e, st) ==
    LET override == EnvTrim(e.NIGHTSCOUT_TZ)
        tzRaw == Settings(st, "timezone")
        localTZ == IF Truthy(e.localTZ) THEN e.localTZ.s ELSE UTC
    IN IF Truthy(override) THEN [thrown |-> FALSE, tz |-> override.s]
       ELSE IF ~IsNullish(tzRaw) /\ tzRaw.t # "string"
       THEN [thrown |-> TRUE, tz |-> <<>>]
       ELSE IF ~IsNullish(tzRaw) /\ Trim(tzRaw.s) # <<>>
       THEN [thrown |-> FALSE, tz |-> Trim(tzRaw.s)]
       ELSE IF ~HasZone(localTZ) THEN [thrown |-> FALSE, tz |-> UTC]
       ELSE [thrown |-> FALSE, tz |-> localTZ]

\* the own properties of the tmap object literal
tmapKeys ==
    << <<"1">>, <<"2">>, <<"3">>, <<"4">>, <<"5">>,
       <<"D","o","u","b","l","e","D","o","w","n">>,
       <<"S","i","n","g","l","e","D","o","w","n">>,
       <<"F","o","r","t","y","F","i","v","e","D","o","w","n">>,
       <<"F","l","a","t">>,
       <<"F","o","r","t","y","F","i","v","e","U","p">>,
       <<"S","i","n","g","l","e","U","p">>,
       <<"D","o","u","b","l","e","U","p">> >>
tmapValues ==
    << <<"v">>, <<"v",">">>, <<"-","-">>, <<"^",">">>, <<"^">>,
       <<"v","v">>, <<"v">>, <<"v",">">>, <<"-","-">>, <<"^",">">>,
       <<"^">>, <<"^","^">> >>

\* the properties every object literal inherits from Object.prototype
ObjectPrototypeKeys ==
    { <<"c","o","n","s","t","r","u","c","t","o","r">>,
      <<"t","o","S","t","r","i","n","g">>,
      <<"v","a","l","u","e","O","f">>,
      <<"h","a","s","O","w","n","P","r","o","p","e","r","t","y">>,
      <<"_","_","p","r","o","t","o","_","_">> }

\* tmap[key]: own properties first, then the prototype chain
tmapGet(key) ==
    IF \E i \in 1..Len(tmapKeys) : tmapKeys[i] = key
    THEN S(tmapValues[CHOOSE i \in 1..Len(tmapKeys) : tmapKeys[i] = key])
    ELSE IF key \in ObjectPrototypeKeys THEN JObj(key)
    ELSE JUndef

\* const arrow = tmap[trend] || (typeof trend === "string" ? trend : "")
arrow(trend) ==
    LET hit == tmapGet(JsString(trend))
    IN IF Truthy(hit) THEN hit
       ELSE IF trend.t = "string" THEN trend ELSE S(<<>>)

Max(a, b) == IF a >= b THEN a ELSE b

\* age with the distance to the timestamp in place of the floor at zero
ageAbsolute(bg0, nowMs) ==
    LET ts == toNumber(Coalesce(bg0.datetime, bg0.readingDate))
    IN IF ts.fin
       THEN NatToStr(Abs(RoundDiv(nowMs * 10 - ts.v, 600000)))
            \o <<"m"," ","a","g","o">>
       ELSE QMark

\* the age label; nowMs is Date.now() in milliseconds
age(bg0, nowMs) ==
    LET ts == toNumber(Coalesce(bg0.datetime, bg0.readingDate))
    IN IF ts.fin
       THEN NatToStr(Max(0, RoundDiv(nowMs * 10 - ts.v, 600000)))
            \o <<"m"," ","a","g","o">>
       ELSE QMark

\* data?.status?.device?.battery ?? data?.status?.battery ?? "?"
battery(d) ==
    IF d.isNull THEN S(QMark)
    ELSE Coalesce(d.deviceBattery, Coalesce(d.statusBattery, S(QMark)))

\* the zone moment formats the stamp in
stampZone(tz) == IF tz # <<>> /\ HasZone(tz) THEN tz ELSE UTC

\* the synchronous part of main between Promise.all and writeFile
render(e, d, st, nowMs) ==
    LET bg0 == Bg0(d)
        units == deriveUnits(e, st, bg0.sgv)
        tzr == resolveTimezone(e, st)
        sgvRaw == Coalesce(bg0.sgv, S(QMark))
        deltaRaw == Coalesce(bg0.bgdelta, S(<<>>))
        trend == Coalesce(bg0.trend, bg0.direction)
    IN [thrown |-> tzr.thrown,
        units |-> units,
        tz |-> tzr.tz,
        sgvDisplay |-> formatBGSmart(sgvRaw, units),
        deltaDisplay |-> formatDeltaSmart(deltaRaw, units),
        arrow |-> arrow(trend),
        age |-> age(bg0, nowMs),
        battery |-> battery(d),
        stampZone |-> stampZone(tzr.tz),
        tzLabel |-> IF tzr.tz # <<>> THEN tzr.tz ELSE UTC]

----------------------------------------------------------------------------
(* The run: module top level of the script *)

NullData ==
    [isNull |-> TRUE, hasBgs |-> FALSE, bgs |-> <<>>,
     deviceBattery |-> JUndef, statusBattery |-> JUndef]

NoOut ==
    [thrown |-> FALSE, units |-> <<>>, tz |-> <<>>, sgvDisplay |-> <<>>,
     deltaDisplay |-> <<>>, arrow |-> JUndef, age |-> <<>>,
     battery |-> JUndef, stampZone |-> <<>>, tzLabel |-> <<>>]

NoFile == [kind |-> "none", page |-> NoOut, msg |-> "", source |-> ""]

\* the two entries of statusURLs
statusURLs == <<"/status.json", "/api/v1/status.json">>

\* a fetch that settled: ok with a JSON body, or the reason getJSON throws
Fulfilled(body) == [ok |-> TRUE, body |-> body, error |-> ""]
Failures == {"fetch failed", "http status", "invalid json"}

InitWith(Envs) ==
    /\ env \in Envs
    /\ pc = "start"
    /\ pebble = "idle"
    /\ statusFetch = [idx |-> 0, state |-> "idle", failed |-> 0]
    /\ data = NullData
    /\ status = NullStatus
    /\ err = ""
    /\ now = 0
    /\ out = NoOut
    /\ file = NoFile
    /\ exitCode = -1
    /\ fetched = <<>>

\* a start without the check of NS
StartUnchecked ==
    /\ pc = "start"
    /\ pc' = "awaitAll"
    /\ pebble' = "pending"
    /\ statusFetch' = [idx |-> 1, state |-> "pending", failed |-> 0]
    /\ fetched' = <<"/pebble", statusURLs[1]>>
    /\ UNCHANGED <<env, data, status, err, now, out, file, exitCode>>

\* if (!NS) process.exit(1); otherwise both fetches of Promise.all start
Start ==
    /\ pc = "start"
    /\ IF ~Truthy(env.NIGHTSCOUT_URL)
       THEN /\ pc' = "exited"
            /\ exitCode' = 1
            /\ UNCHANGED <<pebble, statusFetch, fetched>>
       ELSE /\ pc' = "awaitAll"
            /\ pebble' = "pending"
            /\ statusFetch' = [idx |-> 1, state |-> "pending", failed |-> 0]
            /\ fetched' = <<"/pebble", statusURLs[1]>>
            /\ UNCHANGED exitCode
    /\ UNCHANGED <<env, data, status, err, now, out, file>>

\* getJSON(pebbleURL) settles
PebbleSettle(Bodies) ==
    /\ pebble = "pending"
    /\ \/ \E d \in Bodies :
            /\ pebble' = "fulfilled"
            /\ data' = d
            /\ UNCHANGED err
       \/ \E f \in Failures :
            /\ pebble' = "rejected"
            /\ err' = f
            /\ UNCHANGED data
    /\ UNCHANGED <<env, pc, statusFetch, status, now, out, file, exitCode, fetched>>

\* getStatus that throws after the last URL failed instead of returning null
getStatusStepThrowing(sf, r) ==
    IF r.ok
    THEN [fetch |-> [sf EXCEPT !.state = "done"], result |-> r.body, next |-> <<>>]
    ELSE IF sf.idx < Len(statusURLs)
    THEN [fetch |-> [idx |-> sf.idx + 1, state |-> "pending",
                     failed |-> sf.failed + 1],
          result |-> NullStatus, next |-> <<statusURLs[sf.idx + 1]>>]
    ELSE [fetch |-> [idx |-> sf.idx, state |-> "rejected", failed |-> sf.failed + 1],
          result |-> NullStatus, next |-> <<>>]

\* what getStatus does when the fetch of statusURLs[idx] settles with r:
\* return the body, or log the failure and go on to the next URL, or null
getStatusStep(sf, r) ==
    IF r.ok
    THEN [fetch |-> [sf EXCEPT !.state = "done"], result |-> r.body, next |-> <<>>]
    ELSE IF sf.idx < Len(statusURLs)
    THEN [fetch |-> [idx |-> sf.idx + 1, state |-> "pending",
                     failed |-> sf.failed + 1],
          result |-> NullStatus, next |-> <<statusURLs[sf.idx + 1]>>]
    ELSE [fetch |-> [idx |-> sf.idx, state |-> "done", failed |-> sf.failed + 1],
          result |-> NullStatus, next |-> <<>>]

\* one iteration of the loop of getStatus: the awaited getJSON(u) settles
StatusSettle(Bodies) ==
    /\ statusFetch.state = "pending"
    /\ \E r \in {Fulfilled(b) : b \in Bodies}
              \cup {[ok |-> FALSE, body |-> NullStatus, error |-> f] : f \in Failures} :
          LET step == getStatusStep(statusFetch, r)
          IN /\ statusFetch' = step.fetch
             /\ status' = step.result
             /\ fetched' = fetched \o step.next
    /\ UNCHANGED <<env, pc, pebble, data, err, now, out, file, exitCode>>

\* Promise.all rejects as soon as one of its promises does (getStatus catches
\* every failure, so only getJSON(pebbleURL) can): control enters catch
AllRejected ==
    /\ pc = "awaitAll"
    /\ (pebble = "rejected" \/ statusFetch.state = "rejected")
    /\ pc' = "catch"
    /\ UNCHANGED <<env, pebble, statusFetch, data, status, err, now, out, file,
                   exitCode, fetched>>

\* a try body that reads data.bgs[0].sgv without the guards of bg0
mainStepUnguarded(e, d, st, nowMs) ==
    IF d.isNull \/ ~d.hasBgs \/ d.bgs = <<>>
    THEN [pc |-> "catch", out |-> NoOut, err |-> "cannot read properties"]
    ELSE IF resolveTimezone(e, st).thrown
    THEN [pc |-> "catch", out |-> NoOut, err |-> "trim is not a function"]
    ELSE [pc |-> "writeLive", out |-> render(e, d, st, nowMs), err |-> ""]

\* the body of try up to the await of writeFile; a throw enters catch
mainStep(e, d, st, nowMs) ==
    IF resolveTimezone(e, st).thrown
    THEN [pc |-> "catch", out |-> NoOut, err |-> "trim is not a function"]
    ELSE [pc |-> "writeLive", out |-> render(e, d, st, nowMs), err |-> ""]

\* main that goes on as soon as the status is there, without the reading
RenderOnStatus(Nows) ==
    /\ pc = "awaitAll"
    /\ pebble \in {"fulfilled", "rejected"}
    /\ statusFetch.state = "done"
    /\ \E t \in Nows :
          \E m \in {mainStep(env, data, status, t)} :
             /\ now' = t
             /\ pc' = m.pc
             /\ out' = m.out
             /\ err' = m.err
    /\ UNCHANGED <<env, pebble, statusFetch, data, status, file, exitCode, fetched>>

\* Promise.all resolves once both promises are fulfilled, and main runs on
\* without yielding to the await of writeFile
Render(Nows) ==
    /\ pc = "awaitAll"
    /\ pebble = "fulfilled"
    /\ statusFetch.state = "done"
    /\ \E t \in Nows :
          \E m \in {mainStep(env, data, status, t)} :
             /\ now' = t
             /\ pc' = m.pc
             /\ out' = m.out
             /\ err' = m.err
    /\ UNCHANGED <<env, pebble, statusFetch, data, status, file, exitCode, fetched>>

\* await fs.writeFile("index.html", html)
WriteLive ==
    /\ pc = "writeLive"
    /\ file' = [kind |-> "live", page |-> out, msg |-> "", source |-> ""]
    /\ pc' = "done"
    /\ UNCHANGED <<env, pebble, statusFetch, data, status, err, now, out,
                   exitCode, fetched>>

\* the catch block: the fallback page, and process.exitCode = 0
WriteFallback ==
    /\ pc = "catch"
    /\ file' = [kind |-> "fallback", page |-> NoOut, msg |-> err, source |-> "/pebble"]
    /\ exitCode' = 0
    /\ pc' = "done"
    /\ UNCHANGED <<env, pebble, statusFetch, data, status, err, now, out, fetched>>

----------------------------------------------------------------------------
(* Inputs *)

TxMmol == <<"m","m","o","l">>
TxMgdl == <<"m","g","d","l">>
TxTokyo == <<"A","s","i","a","/","T","o","k","y","o">>
TxMars == <<"M","a","r","s","/","B","a","s","e">>
TxHost == <<"h","t","t","p","s",":","/","/","n","s">>

\* how far around the thresholds 40 and 3.5 the numeric inputs range, in tenths
MaxSpread == 2
\* the clock and the timestamps range over 0..MaxHalfMinutes half minutes
MaxHalfMinutes == 4

Env(url, tz, force, units, localTZ) ==
    [NIGHTSCOUT_URL |-> url, NIGHTSCOUT_TZ |-> tz, FORCE_MMOL |-> force,
     NIGHTSCOUT_UNITS |-> units, localTZ |-> localTZ]

StatusBody(units, unitsBg, topUnits, tz) ==
    [isNull |-> FALSE, hasSettings |-> TRUE, units |-> units,
     units_bg |-> unitsBg, timezone |-> tz, topUnits |-> topUnits]

\* a status object without a settings key
BareStatus(topUnits) ==
    [isNull |-> FALSE, hasSettings |-> FALSE, units |-> JUndef,
     units_bg |-> JUndef, timezone |-> JUndef, topUnits |-> topUnits]

Bg(sgv, bgdelta, trend, direction, datetime, readingDate) ==
    [sgv |-> sgv, bgdelta |-> bgdelta, trend |-> trend, direction |-> direction,
     datetime |-> datetime, readingDate |-> readingDate]

DataBody(bgs, deviceBattery, statusBattery) ==
    [isNull |-> FALSE, hasBgs |-> TRUE, bgs |-> bgs,
     deviceBattery |-> deviceBattery, statusBattery |-> statusBattery]

\* a reading payload without a bgs key
NoBgsBody(deviceBattery, statusBattery) ==
    [isNull |-> FALSE, hasBgs |-> FALSE, bgs |-> <<>>,
     deviceBattery |-> deviceBattery, statusBattery |-> statusBattery]

\* milliseconds of k half minutes
HalfMinutes(k) == 30000 * k

----------------------------------------------------------------------------
(* Runs that vary the unit preferences, the declared unit, the reading and  *)
(* its delta                                                                *)

UnitsEnvs ==
    {Env(S(TxHost), JUndef, f, u, S(TxTokyo)) :
        f \in {JUndef, S(<<" ","T","R","U","E">>), S(<<"1">>)},
        u \in {JUndef, S(TxMmol), S(<<"M","G","D","L"," ">>)}}

UnitsStatuses ==
    {NullStatus,
     BareStatus(S(<<"m","m","o","l","/","L">>)),
     StatusBody(JUndef, JUndef, JUndef, JUndef),
     StatusBody(S(<<"M","M","O","L","/","L">>), JUndef, JUndef, JUndef),
     StatusBody(S(<<"m","g","/","d","l">>), S(TxMmol), S(TxMmol), JUndef),
     StatusBody(S(<<>>), S(TxMmol), JUndef, JUndef),
     StatusBody(JNull, S(<<"M","m","o","l">>), JUndef, JUndef),
     StatusBody(JUndef, JUndef, S(<<"m","g","/","d","l">>), JUndef),
     StatusBody(JNum(10), JUndef, JUndef, JUndef)}

UnitsSgvs ==
    {JUndef, JNull, S(<<>>), S(<<"a","b","c">>), S(<<"6",",","5">>),
     S(<<"1","2","0">>), S(<<" ","3","9">>), JNum(65), JNum(1200), JNum(0)}
    \cup {JNum(v) : v \in (400 - MaxSpread)..(400 + MaxSpread)}

UnitsDeltas ==
    {JUndef, S(<<>>), S(<<" ">>), S(<<"a","b","c">>), S(<<"+","5">>),
     S(<<"-","5">>), S(<<"5">>), S(<<"-","0",".","3">>), S(<<"+","0">>),
     JNum(20), JNum(-20), JNum(0), JNum(-36)}
    \cup {JNum(v) : v \in (35 - MaxSpread)..(35 + MaxSpread)}

\* every reading with a few deltas, and every delta with a few readings
UnitsBodies ==
    {DataBody(<<Bg(v, d, JUndef, JUndef, JUndef, JUndef)>>, JUndef, JUndef) :
        v \in UnitsSgvs, d \in {JUndef, JNum(20)}}
    \cup
    {DataBody(<<Bg(v, d, JUndef, JUndef, JUndef, JUndef)>>, JUndef, JUndef) :
        v \in {JNum(1200), JNum(65)}, d \in UnitsDeltas}

InitUnits == InitWith(UnitsEnvs)

NextUnits ==
    \/ Start
    \/ PebbleSettle(UnitsBodies)
    \/ StatusSettle(UnitsStatuses)
    \/ AllRejected
    \/ Render({0})
    \/ WriteLive
    \/ WriteFallback

SpecUnits == InitUnits /\ [][NextUnits]_vars

\* the try block ran to the await of writeFile, or beyond it
Rendered == pc = "writeLive" \/ (pc = "done" /\ file.kind = "live")

----------------------------------------------------------------------------
(* Text shapes and nearest-value relations used to state the claims *)

\* digits, a point, one digit; an optional leading minus
OneFractionDigit(d) ==
    /\ Len(d) >= 3
    /\ d[Len(d) - 1] = "."
    /\ d[Len(d)] \in DigitSet
    /\ \A i \in 1..(Len(d) - 2) : d[i] \in DigitSet \/ (i = 1 /\ d[i] = "-" /\ Len(d) > 3)

\* digits only; an optional leading minus
IntegerText(d) ==
    /\ Len(d) >= 1
    /\ \A i \in 1..Len(d) : d[i] \in DigitSet \/ (i = 1 /\ d[i] = "-" /\ Len(d) > 1)

\* q / 10 is a nearest tenth to (v / 10) / 18.0182
NearestDivided(q, v) == 2 * Abs(q * MGDL_PER_MMOLL - v * 10000) <= MGDL_PER_MMOLL

\* m is a nearest integer to (v / 10) * 18.0182
NearestMultiplied(m, v) == 2 * Abs(m * 100000 - v * MGDL_PER_MMOLL) <= 100000

\* m is a nearest integer to v / 10
NearestInteger(m, v) == 2 * Abs(10 * m - v) <= 10

\* the number a displayed text reads as, in tenths
Shown(d) == ParseFloat(d).v

\* the reading and the delta of the payload as main reads them
SgvRaw == Coalesce(Bg0(data).sgv, S(QMark))
DeltaRaw == Coalesce(Bg0(data).bgdelta, S(<<>>))
SgvNum == toNumber(SgvRaw)
DeltaNum == toNumber(DeltaRaw)

NoPreference == ~FORCE_MMOL(env) /\ NS_UNITS(env) \notin {S(TxMmol), S(TxMgdl)}

\* the status payload declares a unit: the first of settings.units,
\* settings.units_bg and units that is present, when it is not empty
DeclaredUnit == StatusUnitsRaw(status)
HasDeclaredUnit == Truthy(DeclaredUnit)

ContainsMmol(str) ==
    \E i \in 1..(Len(str) - 3) :
        /\ str[i] \in {"m", "M"}
        /\ str[i + 1] \in {"m", "M"}
        /\ str[i + 2] \in {"o", "O"}
        /\ str[i + 3] \in {"l", "L"}

----------------------------------------------------------------------------
(* Claims about units and formatting, checked under SpecUnits *)

\* C1: deriveUnits returns the result of the first matching rule: the force
\* flag gives mmol/L even against an "mgdl" override; else the override
\* "mmol" or "mgdl" gives that unit; else a declared unit gives mmol/L when it
\* contains "mmol" in any case and mg/dL otherwise; else mmol/L exactly when
\* the raw value is a finite number in (0, 40].  The result is always one of
\* the two units.
C1_UnitPriority ==
    Rendered =>
        /\ out.units \in Units
        /\ FORCE_MMOL(env) => out.units = MMOL_L
        /\ (~FORCE_MMOL(env) /\ NS_UNITS(env) = S(TxMmol)) => out.units = MMOL_L
        /\ (~FORCE_MMOL(env) /\ NS_UNITS(env) = S(TxMgdl)) => out.units = MG_DL
        /\ (NoPreference /\ HasDeclaredUnit) =>
              (out.units = MMOL_L <=> ContainsMmol(JsString(DeclaredUnit)))
        /\ (NoPreference /\ ~HasDeclaredUnit) =>
              (out.units = MMOL_L <=>
                  (toNumber(Bg0(data).sgv).fin
                   /\ toNumber(Bg0(data).sgv).v > 0
                   /\ toNumber(Bg0(data).sgv).v <= 400))

\* C1 witness: the force flag wins over an "mgdl" override
C1_Witness ==
    /\ Rendered
    /\ FORCE_MMOL(env)
    /\ NS_UNITS(env) = S(TxMgdl)
    /\ out.units = MMOL_L

\* C2 as stated: the value is always converted to the resolved unit: v / 18.0182
\* with one fractional digit for mmol/L, v rounded to an integer for mg/dL.
C2_TrustsResolvedUnit ==
    (Rendered /\ SgvNum.fin) =>
        IF out.units = MMOL_L
        THEN /\ OneFractionDigit(out.sgvDisplay)
             /\ NearestDivided(Shown(out.sgvDisplay), SgvNum.v)
        ELSE /\ IntegerText(out.sgvDisplay)
             /\ NearestInteger(Shown(out.sgvDisplay) \div 10, SgvNum.v)

\* C2 amended: the value is converted only when its magnitude looks like the
\* other unit.  For mmol/L a value above 40 is divided by 18.0182 and a value
\* of at most 40 is shown as it is, both with one fractional digit; for mg/dL
\* a value of at most 40 is multiplied by 18.0182 and a value above 40 is
\* left alone, both rounded to an integer.
C2_ConvertsByMagnitude ==
    (Rendered /\ SgvNum.fin) =>
        IF out.units = MMOL_L
        THEN /\ OneFractionDigit(out.sgvDisplay)
             /\ IF SgvNum.v > 400
                THEN NearestDivided(Shown(out.sgvDisplay), SgvNum.v)
                ELSE Shown(out.sgvDisplay) = SgvNum.v
        ELSE /\ IntegerText(out.sgvDisplay)
             /\ IF SgvNum.v <= 400
                THEN NearestMultiplied(Shown(out.sgvDisplay) \div 10, SgvNum.v)
                ELSE NearestInteger(Shown(out.sgvDisplay) \div 10, SgvNum.v)

\* C2 witness: 40 shown in mg/dL is 721, and not 40
C2_Witness ==
    /\ Rendered
    /\ SgvNum = Fin(400)
    /\ out.units = MG_DL
    /\ out.sgvDisplay = <<"7","2","1">>

\* C3: the three scenarios of main.  120 without a declared unit or a
\* preference is "120" mg/dL; 6.5 without either is "6.5" mmol/L; 120 with a
\* preference forcing mmol is "6.7" mmol/L.
C3_Scenarios ==
    Rendered =>
        /\ (SgvNum = Fin(1200) /\ NoPreference /\ ~HasDeclaredUnit) =>
              (out.units = MG_DL /\ out.sgvDisplay = <<"1","2","0">>)
        /\ (SgvNum = Fin(65) /\ NoPreference /\ ~HasDeclaredUnit) =>
              (out.units = MMOL_L /\ out.sgvDisplay = <<"6",".","5">>)
        /\ (SgvNum = Fin(1200) /\ (FORCE_MMOL(env) \/ NS_UNITS(env) = S(TxMmol))) =>
              (out.units = MMOL_L /\ out.sgvDisplay = <<"6",".","7">>)

\* C3 witness: the second scenario ran
C3_Witness ==
    /\ pc = "done"
    /\ file.kind = "live"
    /\ SgvNum = Fin(65)
    /\ NoPreference
    /\ ~HasDeclaredUnit
    /\ file.page.units = MMOL_L
    /\ file.page.sgvDisplay = <<"6",".","5">>

\* the delta carries a sign of its own: its text starts, after white space,
\* with "+" or "-"
ExplicitSign ==
    LET txt == JsString(DeltaRaw)
    IN IF \E i \in 1..Len(txt) : txt[i] \notin WhiteSpace
       THEN LET k == CHOOSE i \in 1..Len(txt) :
                        txt[i] \notin WhiteSpace
                        /\ \A j \in 1..(i - 1) : txt[j] \in WhiteSpace
            IN IF txt[k] \in {"+", "-"} THEN <<txt[k]>> ELSE <<>>
       ELSE <<>>

\* the sign and the shape of a formatted delta
SignedDelta ==
    /\ out.deltaDisplay # <<>>
    /\ Head(out.deltaDisplay) =
          (IF ExplicitSign # <<>> THEN ExplicitSign[1]
           ELSE IF DeltaNum.v >= 0 THEN "+" ELSE "-")
    /\ Len(out.deltaDisplay) > 1
    /\ Tail(out.deltaDisplay)[1] # "-"
    /\ IF out.units = MMOL_L
       THEN OneFractionDigit(Tail(out.deltaDisplay))
       ELSE IntegerText(Tail(out.deltaDisplay))

\* C4 as stated: an empty or absent delta gives the empty string, and every
\* other delta gives a sign followed by the magnitude.
C4_EveryDeltaSigned ==
    Rendered =>
        IF DeltaRaw = S(<<>>) THEN out.deltaDisplay = <<>> ELSE SignedDelta

\* C4 amended: an empty or absent delta gives the empty string; a delta that
\* reads as a finite number gives "+" or "-" (the sign it carries, else the
\* sign of its value, zero being positive) followed by the magnitude with one
\* fractional digit for mmol/L and as an integer for mg/dL; any other delta
\* is shown as it came.
C4_NumericDeltaSigned ==
    Rendered =>
        IF DeltaRaw = S(<<>>) THEN out.deltaDisplay = <<>>
        ELSE IF DeltaNum.fin THEN SignedDelta
        ELSE out.deltaDisplay = JsString(DeltaRaw)

\* C4 witness: a delta without a sign of its own is given "+"
C4_Witness ==
    /\ Rendered
    /\ DeltaRaw = S(<<"5">>)
    /\ out.units = MG_DL
    /\ out.deltaDisplay = <<"+","5">>

\* the magnitude a formatted delta shows, in tenths
ShownDelta == Shown(Tail(out.deltaDisplay))

\* C5: the value and its delta are converted alike: both divided by 18.0182 or
\* both left in the raw scale (or, for mg/dL, both multiplied); never one
\* converted and the other not.
C5_SameConversion ==
    (Rendered /\ SgvNum.fin /\ DeltaNum.fin /\ DeltaRaw # S(<<>>)) =>
        IF out.units = MMOL_L
        THEN \/ /\ NearestDivided(Shown(out.sgvDisplay), SgvNum.v)
                /\ NearestDivided(ShownDelta, Abs(DeltaNum.v))
             \/ /\ Shown(out.sgvDisplay) = SgvNum.v
                /\ ShownDelta = Abs(DeltaNum.v)
        ELSE \/ /\ NearestInteger(Shown(out.sgvDisplay) \div 10, SgvNum.v)
                /\ NearestInteger(ShownDelta \div 10, Abs(DeltaNum.v))
             \/ /\ NearestMultiplied(Shown(out.sgvDisplay) \div 10, SgvNum.v)
                /\ NearestMultiplied(ShownDelta \div 10, Abs(DeltaNum.v))

----------------------------------------------------------------------------
(* Runs that vary the configuration, the timezone candidates and the       *)
(* outcome of every fetch                                                  *)

TxLocal == <<"L","o","c","a","l">>

RunEnvs ==
    {Env(url, tz, JUndef, JUndef, localTZ) :
        url \in {JUndef, S(<<>>), S(TxHost)},
        tz \in {JUndef, S(<<>>), S(<<" ">>),
                S(<<" ","A","s","i","a","/","T","o","k","y","o"," ">>), S(TxMars)},
        localTZ \in {JUndef, S(TxTokyo), S(TxLocal)}}

RunStatuses ==
    {NullStatus, BareStatus(JUndef)}
    \cup {StatusBody(JUndef, JUndef, JUndef, tz) :
            tz \in {JUndef, JNull, S(<<>>), S(<<" ">>), S(<<"u","t","c">>),
                    S(<<" ","A","s","i","a","/","T","o","k","y","o">>),
                    S(TxMars), JNum(90)}}

RunBodies ==
    {NullData,
     DataBody(<<>>, JUndef, JUndef),
     DataBody(<<Bg(S(<<"1","2","0">>), S(<<"+","5">>), JNum(40), JUndef,
                   JNum(0), JUndef)>>, JNum(800), JUndef)}

Init == InitWith(RunEnvs)

Next ==
    \/ Start
    \/ PebbleSettle(RunBodies)
    \/ StatusSettle(RunStatuses)
    \/ AllRejected
    \/ Render({HalfMinutes(MaxHalfMinutes)})
    \/ WriteLive
    \/ WriteFallback

Spec == Init /\ [][Next]_vars

----------------------------------------------------------------------------
(* Claims about the timezone and the status fetch, checked under Spec *)

\* the reading arrived and main went past Promise.all
RenderRan == pebble = "fulfilled" /\ pc \in {"writeLive", "catch", "done"}

NonBlank(x) == x.t = "string" /\ \E i \in 1..Len(x.s) : x.s[i] \notin WhiteSpace

StatusTz == Settings(status, "timezone")

LocalOrUTC ==
    IF env.localTZ.t = "string" /\ HasZone(env.localTZ.s) THEN env.localTZ.s ELSE UTC

\* C6 as stated: a non-empty override is returned even when unknown; below it,
\* an unknown candidate counts as absent: an unknown status timezone gives
\* way to the local timezone, and an unknown local timezone to "UTC".  The
\* result is never empty.
C6_UnknownCandidateSkipped ==
    (RenderRan /\ (IsNullish(StatusTz) \/ StatusTz.t = "string")) =>
        /\ Rendered
        /\ out.tz # <<>>
        /\ out.tz = (IF NonBlank(env.NIGHTSCOUT_TZ) THEN Trim(env.NIGHTSCOUT_TZ.s)
                     ELSE IF NonBlank(StatusTz) /\ HasZone(Trim(StatusTz.s))
                     THEN Trim(StatusTz.s)
                     ELSE LocalOrUTC)

\* C6 amended: a non-empty override is returned (trimmed) even when unknown;
\* otherwise a non-empty status timezone is returned (trimmed), also when it
\* is unknown; otherwise the local timezone if it is known; otherwise "UTC".
\* The result is never empty.  Only the local timezone is checked; a status
\* timezone that is not a string raises when no override is set.
C6_StatusZoneUnchecked ==
    RenderRan =>
        IF NonBlank(env.NIGHTSCOUT_TZ)
        THEN Rendered /\ out.tz = Trim(env.NIGHTSCOUT_TZ.s) /\ out.tz # <<>>
        ELSE IF ~IsNullish(StatusTz) /\ StatusTz.t # "string"
        THEN ~Rendered
        ELSE /\ Rendered
             /\ out.tz # <<>>
             /\ out.tz = (IF NonBlank(StatusTz) THEN Trim(StatusTz.s) ELSE LocalOrUTC)

\* C6 witness: an unknown status timezone was returned
C6_Witness ==
    /\ Rendered
    /\ ~NonBlank(env.NIGHTSCOUT_TZ)
    /\ StatusTz = S(TxMars)
    /\ out.tz = TxMars

\* C7: when the reading fetch succeeds the run writes the live page whatever
\* the override and the status payload hold, with the stamp in UTC when the
\* resolved timezone cannot be used.
C7_TimezoneNeverFallsBack ==
    (pebble = "fulfilled" /\ pc = "done") =>
        /\ file.kind = "live"
        /\ file.page.stampZone =
              (IF HasZone(file.page.tz) THEN file.page.tz ELSE UTC)

\* C10: when every status fetch fails and the reading fetch succeeds, the
\* status is absent and the run writes the live page, never the fallback, in
\* whatever order the fetches settle.
C10_StatusFailureTolerated ==
    (pebble = "fulfilled" /\ statusFetch.failed = Len(statusURLs)) =>
        /\ pc # "catch"
        /\ file.kind # "fallback"
        /\ status = NullStatus
        /\ pc = "done" => file.kind = "live"

\* C10 witness: both status URLs failed and the live page was written
C10_Witness ==
    /\ pc = "done"
    /\ pebble = "fulfilled"
    /\ statusFetch.failed = Len(statusURLs)
    /\ fetched = <<"/pebble", statusURLs[1], statusURLs[2]>>
    /\ file.kind = "live"

----------------------------------------------------------------------------
(* The same runs under the scheduling the event loop gives the catch       *)
(* block: a rejected Promise.all runs its continuation, and the awaited    *)
(* writeFile of the fallback page completes.  A fetch has no timeout and   *)
(* may stay pending for ever, so no fetch is required to settle.           *)

SpecFair ==
    /\ Init
    /\ [][Next]_vars
    /\ WF_vars(AllRejected)
    /\ WF_vars(WriteFallback)

\* getJSON(pebbleURL) threw
ReadingFailed == pebble = "rejected"

\* the fallback page with the reason of the failure and the attempted source
FallbackWritten ==
    /\ pc = "done"
    /\ file.kind = "fallback"
    /\ file.msg \in Failures
    /\ file.msg = err
    /\ file.source = "/pebble"
    /\ exitCode = 0

\* C11: when the reading fetch fails, whatever the status fetch does and
\* whenever it settles, the live page is never written in that run, the run
\* ends only with the fallback page naming the failure reason and /pebble
\* and with exit code 0, and it does get there.
C11_ReadingFailureFallsBack ==
    /\ [](ReadingFailed =>
            /\ file.kind # "live"
            /\ pc \in {"awaitAll", "catch", "done"}
            /\ pc = "done" => FallbackWritten)
    /\ (ReadingFailed ~> FallbackWritten)

\* C11 witness: the fallback page was written while the first status fetch
\* was still pending
C11_Witness ==
    /\ ReadingFailed
    /\ FallbackWritten
    /\ statusFetch.state = "pending"
    /\ fetched = <<"/pebble", statusURLs[1]>>

\* C12: with NIGHTSCOUT_URL unset or empty the run goes from its start
\* straight to exit code 1: no fetch is ever started and index.html is
\* never written, neither as live page nor as fallback page.
C12_MissingUrlExitsFirst ==
    ~Truthy(env.NIGHTSCOUT_URL) =>
        /\ pc \in {"start", "exited"}
        /\ pc = "exited" <=> exitCode = 1
        /\ pc = "start" => exitCode = -1
        /\ fetched = <<>>
        /\ pebble = "idle"
        /\ statusFetch.state = "idle"
        /\ file = NoFile

\* C12 witness: the run with an empty NIGHTSCOUT_URL has exited with code 1
C12_Witness ==
    /\ env.NIGHTSCOUT_URL = S(<<>>)
    /\ pc = "exited"
    /\ exitCode = 1
    /\ fetched = <<>>
    /\ file = NoFile

----------------------------------------------------------------------------
(* Runs that vary the trend code, the reading timestamp and the clock *)

TxDoubleUp == <<"D","o","u","b","l","e","U","p">>
TxSingleDown == <<"S","i","n","g","l","e","D","o","w","n">>
TxFlat == <<"F","l","a","t">>
TxClimbing == <<"C","l","i","m","b","i","n","g">>
TxConstructor == <<"c","o","n","s","t","r","u","c","t","o","r">>

TrendEnvs == {Env(S(TxHost), JUndef, JUndef, JUndef, S(TxTokyo))}

TrendCodes ==
    {JUndef, JNull, JNum(0), JNum(10), JNum(20), JNum(30), JNum(40), JNum(50),
     JNum(60), JNum(15), JNum(-10), S(<<>>), S(<<"3">>), S(TxDoubleUp), S(TxFlat),
     S(TxClimbing), S(TxConstructor)}

Directions == {JUndef, S(TxSingleDown), S(TxClimbing)}

\* a number of milliseconds as a JavaScript number
Millis(ms) == JNum(10 * ms)

Timestamps ==
    {JUndef, JNull, S(<<>>), S(<<"s","o","o","n">>), S(<<"6","0","0","0","0">>),
     S(<<"6","0","0","0","0","Z">>)}
    \cup {Millis(HalfMinutes(k)) : k \in 0..MaxHalfMinutes}

ReadingDates == {JUndef, Millis(HalfMinutes(1))}

\* every trend code with a fixed timestamp, and every timestamp with a fixed
\* trend code
TrendBodies ==
    {DataBody(<<Bg(JNum(1200), JUndef, c, d, Millis(0), JUndef)>>, JUndef, JUndef) :
        c \in TrendCodes, d \in Directions}
    \cup
    {DataBody(<<Bg(JNum(1200), JUndef, JNum(30), JUndef, ts, rd)>>, JUndef, JUndef) :
        ts \in Timestamps, rd \in ReadingDates}

Clock == {HalfMinutes(k) : k \in 0..MaxHalfMinutes}

InitTrend == InitWith(TrendEnvs)

NextTrend ==
    \/ Start
    \/ PebbleSettle(TrendBodies)
    \/ StatusSettle({NullStatus})
    \/ AllRejected
    \/ Render(Clock)
    \/ WriteLive
    \/ WriteFallback

SpecTrend == InitTrend /\ [][NextTrend]_vars

----------------------------------------------------------------------------
(* Claims about the trend symbol and the age, checked under SpecTrend *)

\* the trend code as main reads it
Trend == Coalesce(Bg0(data).trend, Bg0(data).direction)

\* the code is one of the numeric codes 1 to 5, as a number or as its text
NumericCode ==
    \/ Trend.t = "number" /\ Trend.n \in {10, 20, 30, 40, 50}
    \/ Trend.t = "string" /\ Trend.s \in {tmapKeys[i] : i \in 1..5}

NamedDirection == Trend.t = "string" /\ Trend.s \in {tmapKeys[i] : i \in 6..12}

\* the fixed symbol of a numeric code or of a named direction
SymbolOf(code) ==
    tmapValues[CHOOSE i \in 1..Len(tmapKeys) : tmapKeys[i] = JsString(code)]

\* C8: the trend mapping always yields a string: the fixed symbol for the
\* codes 1 to 5 and the seven named directions, any other non-empty string
\* as it came, and the empty string for an absent or null code, an empty
\* string and a number outside 1 to 5.
C8_TrendTotalString ==
    Rendered =>
        /\ out.arrow.t = "string"
        /\ out.arrow.s =
              (IF NumericCode \/ NamedDirection THEN SymbolOf(Trend)
               ELSE IF Trend.t = "string" THEN Trend.s
               ELSE <<>>)

\* the reading timestamp as main reads it, and the elapsed time in tenths of
\* a millisecond
Timestamp == toNumber(Coalesce(Bg0(data).datetime, Bg0(data).readingDate))
Elapsed == now * 10 - Timestamp.v

\* the label is "<n>m ago"
AgoLabel(n) == out.age = NatToStr(n) \o <<"m"," ","a","g","o">>

\* C9 as stated: "?" without a finite timestamp; otherwise "<n>m ago" with n
\* the elapsed whole minutes, and 0 when the timestamp is later than now.
C9_WholeMinutes ==
    Rendered =>
        IF ~Timestamp.fin THEN out.age = QMark
        ELSE AgoLabel(IF Elapsed < 0 THEN 0 ELSE Elapsed \div 600000)

\* C9 amended: "?" when the timestamp is absent or does not read as a finite
\* number; otherwise "<n>m ago" with n the elapsed minutes rounded to the
\* nearest whole minute (half a minute rounds up), never negative, and 0
\* whenever the timestamp is later than now.
C9_NearestMinute ==
    Rendered =>
        IF ~Timestamp.fin THEN out.age = QMark
        ELSE \E n \in 0..(MaxHalfMinutes + 1) :
                /\ AgoLabel(n)
                /\ Elapsed < 0 => n = 0
                /\ \/ n = 0 /\ Elapsed < 300000
                   \/ /\ n > 0
                      /\ n * 600000 - 300000 <= Elapsed
                      /\ Elapsed < n * 600000 + 300000

\* C9 witness: a timestamp a minute ahead of the clock gives "0m ago"
C9_Witness ==
    /\ Rendered
    /\ Timestamp.fin
    /\ Elapsed <= -600000
    /\ out.age = <<"0","m"," ","a","g","o">>


----------------------------------------------------------------------------
(* Runs that vary what a fetched reading payload holds and lacks *)

TxHigh == <<"H","I","G","H">>
TxSoon == <<"s","o","o","n">>

ReadingEnvs ==
    {Env(S(TxHost), tz, JUndef, JUndef, S(TxTokyo)) : tz \in {JUndef, S(TxTokyo)}}

ReadingStatuses ==
    {NullStatus,
     StatusBody(S(MMOL_L), JUndef, JUndef, S(TxTokyo)),
     StatusBody(JUndef, JUndef, JUndef, JNum(90))}

ReadingSgvs == {JUndef, JNull, S(<<>>), S(TxHigh), S(<<"6",",","5">>), JNum(1200)}
ReadingDeltas == {JUndef, JNull, S(<<>>), JNum(20)}
ReadingTrends == {JUndef, JNull, JNum(40)}
ReadingDirections == {JUndef, S(TxFlat)}
ReadingDatetimes == {JUndef, JNull, S(TxSoon), Millis(0)}
DeviceBatteries == {JUndef, JNull, JNum(800)}
StatusBatteries == {JUndef, JNull, S(<<"5","0">>)}

\* no payload, no list, an empty list; every value, delta and trend with a
\* fixed timestamp and battery; every timestamp and battery with a fixed
\* value, delta and trend
ReadingBodies ==
    {NullData}
    \cup {NoBgsBody(db, sb) : db \in DeviceBatteries, sb \in StatusBatteries}
    \cup {DataBody(<<>>, db, sb) : db \in DeviceBatteries, sb \in StatusBatteries}
    \cup {DataBody(<<Bg(v, dl, c, d, Millis(0), JUndef)>>, JNum(800), JUndef) :
             v \in ReadingSgvs, dl \in ReadingDeltas, c \in ReadingTrends,
             d \in ReadingDirections}
    \cup {DataBody(<<Bg(JNum(1200), JNum(20), JNum(40), JUndef, ts, rd)>>, db, sb) :
             ts \in ReadingDatetimes, rd \in ReadingDates,
             db \in DeviceBatteries, sb \in StatusBatteries}

InitReading == InitWith(ReadingEnvs)

NextReading ==
    \/ Start
    \/ PebbleSettle(ReadingBodies)
    \/ StatusSettle(ReadingStatuses)
    \/ AllRejected
    \/ Render({HalfMinutes(MaxHalfMinutes)})
    \/ WriteLive
    \/ WriteFallback

SpecReading == InitReading /\ [][NextReading]_vars

----------------------------------------------------------------------------
(* Claim about malformed reading payloads, checked under SpecReading *)

\* the reading list is missing or empty
NoReading == data.isNull \/ ~data.hasBgs \/ data.bgs = <<>>

\* the only raise of the try body: a status timezone that is not a string,
\* with no override to keep resolveTimezone from reading it
TimezoneRaises ==
    /\ ~NonBlank(env.NIGHTSCOUT_TZ)
    /\ ~IsNullish(StatusTz)
    /\ StatusTz.t # "string"

\* C13: a fetched reading payload never sends the run to the fallback page,
\* whatever it holds or lacks: the run falls back exactly when the status
\* timezone raises, and otherwise writes the live page, where a value that
\* does not read as a number is shown as its own text and a missing value
\* as "?", a missing delta as the empty string, a missing trend as the
\* empty string, a missing or unreadable timestamp as age "?", and the
\* battery as "?" when neither battery field is there; with a missing or
\* empty reading list all of these at once.
C13_MalformedReadingTolerated ==
    (pebble = "fulfilled" /\ pc = "done") =>
        /\ file.kind \in {"live", "fallback"}
        /\ file.kind = "fallback" <=> TimezoneRaises
        /\ file.kind = "live" =>
             /\ ~SgvNum.fin => file.page.sgvDisplay = JsString(SgvRaw)
             /\ IsNullish(Bg0(data).sgv) => file.page.sgvDisplay = QMark
             /\ IsNullish(Bg0(data).bgdelta) => file.page.deltaDisplay = <<>>
             /\ IsNullish(Trend) => file.page.arrow = S(<<>>)
             /\ ~Timestamp.fin => file.page.age = QMark
             /\ (IsNullish(data.deviceBattery) /\ IsNullish(data.statusBattery))
                    => file.page.battery = S(QMark)
             /\ NoReading =>
                    /\ file.page.sgvDisplay = QMark
                    /\ file.page.deltaDisplay = <<>>
                    /\ file.page.arrow = S(<<>>)
                    /\ file.page.age = QMark

\* C13 witness: the live page of a payload with an empty reading list and no
\* battery, all sentinels
C13_Witness ==
    /\ pc = "done"
    /\ file.kind = "live"
    /\ ~data.isNull /\ data.hasBgs /\ data.bgs = <<>>
    /\ file.page.sgvDisplay = QMark
    /\ file.page.age = QMark
    /\ file.page.battery = S(QMark)


----------------------------------------------------------------------------
(* The earlier script with two readers of the status, src/scripts/build.js *)
(* lines 102-264: getStatus() and getTimezone() each fetch statusURL, and  *)
(* main awaits both next to the reading                                    *)

statusURL == "/status.json"

\* Number(x): the whole trimmed text must be a number; "" and null give 0
JsNumber(x) ==
    CASE x.t = "undefined" -> NaN
      [] x.t = "null" -> Fin(0)
      [] x.t = "number" -> Fin(x.n)
      [] x.t = "string" ->
           LET t == Trim(x.s)
               body == IF t # <<>> /\ Head(t) \in {"+", "-"} THEN Tail(t) ELSE t
               ip == DigitRun(body)
               r1 == SubSeq(body, Len(ip) + 1, Len(body))
               fp == IF r1 # <<>> /\ Head(r1) = "." THEN DigitRun(Tail(r1)) ELSE <<>>
               whole == r1 = <<>> \/ (Head(r1) = "." /\ Len(r1) = 1 + Len(fp))
           IN IF t = <<>> THEN Fin(0)
              ELSE IF whole /\ (ip # <<>> \/ fp # <<>>) THEN ParseFloat(t)
              ELSE NaN
      [] OTHER -> NaN

\* deriveUnits(status) of the earlier script: no inference, "mg/dl" by default
legacyDeriveUnits(st) ==
    LET raw == Coalesce(Settings(st, "units"),
                   Coalesce(Settings(st, "units_bg"),
                       Coalesce(TopUnits(st), S(<<"m","g","/","d","l">>))))
    IN IF Includes(ToLowerCase(JsString(raw)), <<"m","m","o","l">>)
       THEN MMOL_L ELSE MG_DL

formatBG(valueMgdl, units) ==
    LET n == JsNumber(valueMgdl)
    IN IF ~n.fin THEN JsString(Coalesce(valueMgdl, S(QMark)))
       ELSE IF units = MMOL_L
       THEN ToFixed1(RoundDiv(n.v * 10000, MGDL_PER_MMOLL))
       ELSE NumToStr(10 * RoundDiv(n.v, 10))

\* the match of /^\s*([+-]?)(\d+(\.\d+)?)\s*$/ decides; the sign defaults to +
formatDelta(deltaStrOrNum, units) ==
    IF IsNullish(deltaStrOrNum) \/ deltaStrOrNum = S(<<>>) THEN <<>>
    ELSE LET str == JsString(deltaStrOrNum)
             t == Trim(str)
             sign == IF t # <<>> /\ Head(t) \in {"+", "-"} THEN <<Head(t)>> ELSE <<>>
             body == IF sign # <<>> THEN Tail(t) ELSE t
             ip == DigitRun(body)
             r1 == SubSeq(body, Len(ip) + 1, Len(body))
             fp == IF r1 # <<>> /\ Head(r1) = "." THEN DigitRun(Tail(r1)) ELSE <<>>
             matches == /\ ip # <<>>
                        /\ r1 = <<>> \/ (fp # <<>> /\ Len(r1) = 1 + Len(fp))
             val == ParseFloat(body).v
         IN IF ~matches THEN str
            ELSE (IF sign # <<>> THEN sign ELSE <<"+">>)
                 \o (IF units = MMOL_L
                     THEN ToFixed1(RoundDiv(val * 10000, MGDL_PER_MMOLL))
                     ELSE NumToStr(10 * RoundDiv(val, 10)))

\* the arrows of the earlier tmap, each named by its code point
legacyTmapValues ==
    << <<"U+2193">>, <<"U+2198">>, <<"U+2192">>, <<"U+2197">>, <<"U+2191">>,
       <<"U+2193","U+2193">>, <<"U+2193">>, <<"U+2198">>, <<"U+2192">>,
       <<"U+2197">>, <<"U+2191">>, <<"U+2191","U+2191">> >>

legacyArrow(trend) ==
    LET key == JsString(trend)
        hit == IF \E i \in 1..Len(tmapKeys) : tmapKeys[i] = key
               THEN S(legacyTmapValues[CHOOSE i \in 1..Len(tmapKeys) : tmapKeys[i] = key])
               ELSE IF key \in ObjectPrototypeKeys THEN JObj(key)
               ELSE JUndef
    IN IF Truthy(hit) THEN hit
       ELSE IF trend.t = "string" THEN trend ELSE S(<<>>)

\* const ts = Number(...); if (!Number.isNaN(ts)) ...
legacyAge(bg0, nowMs) ==
    LET ts == JsNumber(Coalesce(bg0.datetime, bg0.readingDate))
    IN IF ts.fin
       THEN NatToStr(Max(0, RoundDiv(nowMs * 10 - ts.v, 600000)))
            \o <<"m"," ","a","g","o">>
       ELSE QMark

\* new Intl.DateTimeFormat("en-US", {timeZone: tz}) accepts tz
IntlHasZone(tz) == \E z \in MomentZones : ToLowerCase(z) = ToLowerCase(tz)


\* getTimezone() once its own fetch of statusURL settled with r: the trimmed
\* timezone of that response, if it is a non-empty string; a failed fetch and
\* a throwing .trim() are both caught, and the local timezone is returned
getTimezoneStep(e, r) ==
    LET tzRaw == IF r.ok THEN Settings(r.body, "timezone") ELSE JUndef
        localTZ == IF Truthy(e.localTZ) THEN e.localTZ.s ELSE UTC
    IN IF tzRaw.t = "string" /\ Trim(tzRaw.s) # <<>> THEN Trim(tzRaw.s)
       ELSE localTZ

\* the synchronous part of the earlier main between Promise.all and writeFile
legacyRender(d, st, tz, nowMs) ==
    LET bg0 == Bg0(d)
        units == legacyDeriveUnits(st)
    IN [thrown |-> FALSE,
        units |-> units,
        tz |-> tz,
        sgvDisplay |-> formatBG(Coalesce(bg0.sgv, S(QMark)), units),
        deltaDisplay |-> formatDelta(Coalesce(bg0.bgdelta, S(<<>>)), units),
        arrow |-> legacyArrow(Coalesce(bg0.trend, bg0.direction)),
        age |-> legacyAge(bg0, nowMs),
        battery |-> battery(d),
        stampZone |-> tz,
        tzLabel |-> tz]

\* the body of the earlier try; Intl.DateTimeFormat throws a RangeError for a
\* timezone it does not know
legacyMainStep(d, st, tz, nowMs) ==
    IF ~IntlHasZone(tz)
    THEN [pc |-> "catch", out |-> NoOut, err |-> "invalid time zone"]
    ELSE [pc |-> "writeLive", out |-> legacyRender(d, st, tz, nowMs), err |-> ""]

\* no response read yet
NoResponse == [ok |-> FALSE, body |-> NullStatus, error |-> "none"]

\* if (!NS) process.exit(1); otherwise Promise.all starts getJSON(pebbleURL),
\* getStatus() and getTimezone(); with an override getTimezone returns it
\* without a fetch
LegacyStart ==
    /\ pc = "start"
    /\ IF ~Truthy(env.NIGHTSCOUT_URL)
       THEN /\ pc' = "exited"
            /\ exitCode' = 1
            /\ UNCHANGED <<pebble, statusFetch, fetched>>
       ELSE LET override == EnvTrim(env.NIGHTSCOUT_TZ)
            IN /\ pc' = "awaitAll"
               /\ pebble' = "pending"
               /\ statusFetch' =
                     [idx |-> 1, state |-> "pending", failed |-> 0,
                      tzState |-> IF Truthy(override) THEN "done" ELSE "pending",
                      tzSaw |-> NoResponse,
                      tz |-> IF Truthy(override) THEN override.s ELSE <<>>]
               /\ fetched' = <<"/pebble", statusURL>>
                                \o (IF Truthy(override) THEN <<>> ELSE <<statusURL>>)
               /\ UNCHANGED exitCode
    /\ UNCHANGED <<env, data, status, err, now, out, file>>

\* the fetch of getStatus() settles: the body, or null after a failure
LegacyStatusSettle(Bodies) ==
    /\ pc # "start"
    /\ statusFetch.state = "pending"
    /\ \E r \in {Fulfilled(b) : b \in Bodies}
              \cup {[ok |-> FALSE, body |-> NullStatus, error |-> f] : f \in Failures} :
          /\ status' = r.body
          /\ statusFetch' = [statusFetch EXCEPT !.state = "done",
                                                !.failed = IF r.ok THEN 0 ELSE 1]
    /\ UNCHANGED <<env, pc, pebble, data, err, now, out, file, exitCode, fetched>>

\* the fetch of getTimezone() settles
LegacyTimezoneSettle(Bodies) ==
    /\ pc # "start"
    /\ statusFetch.tzState = "pending"
    /\ \E r \in {Fulfilled(b) : b \in Bodies}
              \cup {[ok |-> FALSE, body |-> NullStatus, error |-> f] : f \in Failures} :
          statusFetch' = [statusFetch EXCEPT !.tzState = "done",
                                             !.tzSaw = r,
                                             !.tz = getTimezoneStep(env, r)]
    /\ UNCHANGED <<env, pc, pebble, data, status, err, now, out, file, exitCode,
                   fetched>>

\* Promise.all resolves once all three promises are fulfilled
LegacyRender(Nows) ==
    /\ pc = "awaitAll"
    /\ pebble = "fulfilled"
    /\ statusFetch.state = "done"
    /\ statusFetch.tzState = "done"
    /\ \E t \in Nows :
          \E m \in {legacyMainStep(data, status, statusFetch.tz, t)} :
             /\ now' = t
             /\ pc' = m.pc
             /\ out' = m.out
             /\ err' = m.err
    /\ UNCHANGED <<env, pebble, statusFetch, data, status, file, exitCode, fetched>>

LegacyEnvs ==
    {Env(S(TxHost), tz, JUndef, JUndef, S(UTC)) : tz \in {JUndef, S(TxTokyo)}}

LegacyStatuses ==
    {NullStatus,
     StatusBody(S(MMOL_L), JUndef, JUndef, S(TxTokyo)),
     StatusBody(S(MG_DL), JUndef, JUndef, JUndef),
     StatusBody(JUndef, JUndef, JUndef, S(TxMars)),
     StatusBody(JUndef, S(TxMmol), JUndef, JNum(90))}

LegacyBodies ==
    {DataBody(<<>>, JUndef, JUndef),
     DataBody(<<Bg(S(<<"1","2","0">>), S(<<"+","5">>), JNum(40), JUndef,
                   Millis(0), JUndef)>>, JNum(800), JUndef),
     DataBody(<<Bg(JNum(1200), JNum(-50), JUndef, S(TxFlat),
                   JUndef, Millis(HalfMinutes(1)))>>, JUndef, JNum(500))}

InitLegacy == InitWith(LegacyEnvs)

NextLegacy ==
    \/ LegacyStart
    \/ PebbleSettle(LegacyBodies)
    \/ LegacyStatusSettle(LegacyStatuses)
    \/ LegacyTimezoneSettle(LegacyStatuses)
    \/ AllRejected
    \/ LegacyRender({HalfMinutes(MaxHalfMinutes)})
    \/ WriteLive
    \/ WriteFallback

SpecLegacy == InitLegacy /\ [][NextLegacy]_vars

----------------------------------------------------------------------------
(* Claim about the status snapshot, checked under SpecLegacy *)

\* the response of the status fetch the unit was derived from
UnitSnapshot == [ok |-> statusFetch.failed = 0, body |-> status]

\* the response of the status fetch the timezone was derived from
TimezoneSnapshot == [ok |-> statusFetch.tzSaw.ok, body |-> statusFetch.tzSaw.body]

\* C14: on a rendered page the unit and the timezone come from the same
\* status snapshot: whenever the timezone was read from a status fetch, that
\* fetch is the one the unit was read from, with the same outcome and the
\* same payload, never a different response and never a failed one next to
\* a successful one.
C14_OneStatusSnapshot ==
    (Rendered /\ ~NonBlank(env.NIGHTSCOUT_TZ)) =>
        /\ TimezoneSnapshot = UnitSnapshot
        /\ out.units = legacyDeriveUnits(UnitSnapshot.body)
        /\ out.tz = getTimezoneStep(env, Fulfilled(UnitSnapshot.body))

=============================================================================
